---- MODULE Spec2Model ----
(***************************************************************************)
(* Model of the configuration resolver (internal/config/config.go) and of  *)
(* the config migration bridge MigrateConfigToYAML (internal/storage/      *)
(* sqlite) of the beads issue tracker.                                     *)
(*                                                                         *)
(* File contents, lines, prefixes and identifiers are TLA+ strings, used   *)
(* as sequences of characters (Len, SubSeq and \o), so that the line scan  *)
(* of SetIssuePrefix, Go's %q quoting and the reading of the YAML file are *)
(* computed character by character as the code computes them.              *)
(***************************************************************************)
EXTENDS Naturals, Sequences, FiniteSets, TLC

(***************************************************************************)
(* Strings (package strings, fmt %q)                                       *)
(***************************************************************************)

CharAt(s, i) == SubSeq(s, i, i)

\* strings.HasPrefix
HasPrefix(s, p) == Len(s) >= Len(p) /\ SubSeq(s, 1, Len(p)) = p

\* unicode.IsSpace, over the characters the model's strings are made of
IsSpace(c) == c \in {" ", "\t", "\n", "\r"}

RECURSIVE TrimLeft(_)
TrimLeft(s) ==
    IF Len(s) > 0 /\ IsSpace(CharAt(s, 1)) THEN TrimLeft(SubSeq(s, 2, Len(s))) ELSE s

RECURSIVE TrimRight(_)
TrimRight(s) ==
    IF Len(s) > 0 /\ IsSpace(CharAt(s, Len(s)))
    THEN TrimRight(SubSeq(s, 1, Len(s) - 1)) ELSE s

\* strings.TrimSpace
TrimSpace(s) == TrimRight(TrimLeft(s))

\* strings.Index(s[from..], sub), as a position in s; 0 when sub does not occur
RECURSIVE IndexFrom(_, _, _)
IndexFrom(s, sub, from) ==
    IF from + Len(sub) - 1 > Len(s) THEN 0
    ELSE IF SubSeq(s, from, from + Len(sub) - 1) = sub THEN from
    ELSE IndexFrom(s, sub, from + 1)

\* strings.LastIndex(s, sub), 0 when sub does not occur
RECURSIVE LastIndexFrom(_, _, _)
LastIndexFrom(s, sub, from) ==
    IF from < 1 THEN 0
    ELSE IF SubSeq(s, from, from + Len(sub) - 1) = sub THEN from
    ELSE LastIndexFrom(s, sub, from - 1)

Contains(s, sub) == IndexFrom(s, sub, 1) # 0

\* strings.Split(s, "\n"): a tuple of lines, one more than the separators
RECURSIVE Split(_)
Split(s) ==
    LET i == IndexFrom(s, "\n", 1)
    IN  IF i = 0 THEN <<s>>
        ELSE <<SubSeq(s, 1, i - 1)>> \o Split(SubSeq(s, i + 1, Len(s)))

\* strings.Join(lines, "\n")
RECURSIVE Join(_)
Join(lines) ==
    IF Len(lines) = 0 THEN ""
    ELSE IF Len(lines) = 1 THEN lines[1]
    ELSE lines[1] \o "\n" \o Join(Tail(lines))

\* strconv.Quote's escape of one character
EscapeChar(c) ==
    CASE c = "\"" -> "\\\""
      [] c = "\\" -> "\\\\"
      [] c = "\n" -> "\\n"
      [] c = "\r" -> "\\r"
      [] c = "\t" -> "\\t"
      [] OTHER    -> c

RECURSIVE Escape(_)
Escape(s) ==
    IF Len(s) = 0 THEN "" ELSE EscapeChar(CharAt(s, 1)) \o Escape(SubSeq(s, 2, Len(s)))

\* fmt.Sprintf("%q", s)
Quote(s) == "\"" \o Escape(s) \o "\""

\* fmt.Sprintf("issue-prefix: %q", prefix)
PrefixLine(prefix) == "issue-prefix: " \o Quote(prefix)

(***************************************************************************)
(* Bounds and the values the inputs are drawn from                         *)
(***************************************************************************)

\* Depth of the working directory below the filesystem root (level 0).
MaxDepth == 2

\* How many prefixes of PrefixPool callers and the database may use.
NPrefix == 2

PrefixPool == <<"bd", "a\"b", "new">>

Min(a, b) == IF a < b THEN a ELSE b

Prefixes == {PrefixPool[i] : i \in 1..Min(NPrefix, Len(PrefixPool))}

\* How many processes call SetIssuePrefix at the same time.
NWriters == 2

Writers == 1..Min(NWriters, Len(PrefixPool))

\* How many issues the database may hold.
MaxIssues == 1

\* Identifiers of issues, in the order the model creates them.
IssuePool == <<"old-prefix-42", "zz-7">>

\* The options the model resolves.
Keys == {"issue-prefix", "json"}

Levels == 0..MaxDepth

File(data) == [exists |-> TRUE, data |-> data]

NoFile == [exists |-> FALSE, data |-> ""]

\* Contents of <project>/.beads/config.yaml before the program runs.
InitContents ==
    { "",
      "json: true\n",
      "# issue-prefix: \"commented\"\njson: true\n",
      "issue-prefix: \"old\"\njson: true\n",
      "# My config\njson: true\nissue-prefix: old # keep\nactor: u",
      "  issue-prefix: old",
      "json: false\n  #issue-prefix: x",
      "issue-prefix: \"old\"\nissue-prefix: \"dup\"\n" }

\* Content of a config.yaml in an outer project, the user or the home directory.
OuterContent == "issue-prefix: \"outer\"\n"

UserContent == "issue-prefix: \"user\"\n"

HomeContent == "issue-prefix: \"home\"\njson: true\n"

(***************************************************************************)
(* State                                                                   *)
(***************************************************************************)

VARIABLES
    v,          \* the singleton: nil, or a viper instance
    env,        \* environment: key K |-> the variable BD_<K>, unset or set to a value
    cwd,        \* level of the working directory
    beads,      \* level |-> what <dir>/.beads is: "none", "dir" or "file"
    cfgFile,    \* level |-> <dir>/.beads/config.yaml
    tmpFile,    \* level |-> <dir>/.beads/config.yaml.tmp
    userCfg,    \* <user-config-dir>/bd/config.yaml
    homeCfg,    \* <home>/.beads/config.yaml
    dbConfig,   \* row of the legacy settings table for key issue_prefix
    issues,     \* issue identifiers, ordered by creation time
    last,       \* the last call made: operation, prefix argument, error, directory written
    migrated,   \* whether a storage open has written a prefix to the project's config
                \* file: "no", or by "this process", or by an "earlier process"
    inodes,     \* concurrent calls: the bytes of each file created, by inode number
    configPath, \* the inode <cwd>/.beads/config.yaml names, 0 when it names none
    tmpPath,    \* the inode <cwd>/.beads/config.yaml.tmp names, 0 when it names none
    pc,         \* writer |-> where its SetIssuePrefix call stands
    newContent, \* writer |-> the content its call joined for the file
    fd,         \* writer |-> the inode its os.WriteFile has open
    inMemory,   \* writer |-> what its process's singleton holds for issue-prefix
    observed,   \* what another process last read at config.yaml
    complete,   \* the content before any call and the content each call joined
    dbFiles,    \* database directory: file name |-> the file, if any, and its version marker
    dbLast      \* what the last operation on the database directory did

vars == <<v, env, cwd, beads, cfgFile, tmpFile, userCfg, homeCfg, dbConfig, issues, last, migrated, inodes, configPath, tmpPath, pc, newContent, fd, inMemory, observed, complete, dbFiles, dbLast>>

\* the variables of the concurrent calls
cvars == <<inodes, configPath, tmpPath, pc, newContent, fd, inMemory, observed, complete>>

\* the variables of the database directory
dvars == <<dbFiles, dbLast>>

Some(val) == [has |-> TRUE, val |-> val]

None == [has |-> FALSE, val |-> ""]

NoValues == [k \in Keys |-> None]

\* var v *viper.Viper, before Initialize
Nil == [nil |-> TRUE, override |-> NoValues, config |-> NoValues]

\* viper.New()
NewViper == [nil |-> FALSE, override |-> NoValues, config |-> NoValues]

\* v.SetDefault(...)
Default(key) == IF key = "json" THEN "false" ELSE ""

(***************************************************************************)
(* The line rewrite of SetIssuePrefix                                      *)
(***************************************************************************)

\* lines := []string{}; if content != "" { lines = strings.Split(content, "\n") }
ContentLines(content) == IF content = "" THEN <<>> ELSE Split(content)

\* IsPrefixLine without its comment test: issue-prefix: anywhere in the line
IsPrefixLineAnywhere(line) == Contains(line, "issue-prefix:")

\* the test of the line scan
IsPrefixLine(line) ==
    LET trimmed == TrimSpace(line)
    IN  HasPrefix(trimmed, "issue-prefix:") /\ ~HasPrefix(trimmed, "#")

\* the line scan: the first matching line at or after i, 0 when there is none
RECURSIVE FindPrefixLine(_, _)
FindPrefixLine(lines, i) ==
    IF i > Len(lines) THEN 0
    ELSE IF IsPrefixLine(lines[i]) THEN i
    ELSE FindPrefixLine(lines, i + 1)

\* UpdateLines adding the new line at the end of the file instead of the start
UpdateLinesAppended(lines, prefix) ==
    LET i == FindPrefixLine(lines, 1)
    IN  IF i # 0 THEN [lines EXCEPT ![i] = PrefixLine(prefix)]
        ELSE IF Len(lines) > 0 THEN lines \o <<"", PrefixLine(prefix)>>
        ELSE <<PrefixLine(prefix)>>

\* UpdateLines without the scan: the new line is always added at the start
UpdateLinesAlwaysAdded(lines, prefix) ==
    IF Len(lines) > 0 THEN <<PrefixLine(prefix), "">> \o lines
    ELSE <<PrefixLine(prefix)>>

\* update or add the issue-prefix line
UpdateLines(lines, prefix) ==
    LET i == FindPrefixLine(lines, 1)
    IN  IF i # 0 THEN [lines EXCEPT ![i] = PrefixLine(prefix)]
        ELSE IF Len(lines) > 0 THEN <<PrefixLine(prefix), "">> \o lines
        ELSE <<PrefixLine(prefix)>>

UpdateContent(content, prefix) == Join(UpdateLines(ContentLines(content), prefix))

(***************************************************************************)
(* v.ReadInConfig(): the config file read as a flat YAML block mapping.    *)
(* The reading covers what the model's files are made of: blank lines,     *)
(* comment lines, and "key: value" entries whose value is empty, plain or  *)
(* double-quoted, with an optional trailing comment.  Every entry must sit *)
(* at the indentation of the first one and no key may repeat (yaml.v3).    *)
(***************************************************************************)

RECURSIVE Indent(_)
Indent(line) ==
    IF Len(line) > 0 /\ CharAt(line, 1) = " "
    THEN 1 + Indent(SubSeq(line, 2, Len(line))) ELSE 0

\* position of the quote closing a double-quoted scalar, scanning from i
RECURSIVE ClosingQuote(_, _)
ClosingQuote(s, i) ==
    IF i > Len(s) THEN 0
    ELSE IF CharAt(s, i) = "\\" THEN ClosingQuote(s, i + 2)
    ELSE IF CharAt(s, i) = "\"" THEN i
    ELSE ClosingQuote(s, i + 1)

UnescapeChar(c) ==
    CASE c = "n" -> "\n"
      [] c = "r" -> "\r"
      [] c = "t" -> "\t"
      [] OTHER   -> c

RECURSIVE Unescape(_)
Unescape(s) ==
    IF Len(s) = 0 THEN ""
    ELSE IF CharAt(s, 1) = "\\" /\ Len(s) >= 2
         THEN UnescapeChar(CharAt(s, 2)) \o Unescape(SubSeq(s, 3, Len(s)))
         ELSE CharAt(s, 1) \o Unescape(SubSeq(s, 2, Len(s)))

\* ScalarValue keeping the escapes of a double-quoted scalar as they are written
ScalarValueRaw(rest) ==
    IF rest = "" \/ HasPrefix(rest, "#") THEN [ok |-> TRUE, val |-> None]
    ELSE IF HasPrefix(rest, "\"") THEN
        LET j     == ClosingQuote(rest, 2)
            after == TrimSpace(SubSeq(rest, j + 1, Len(rest)))
        IN  IF j = 0 \/ (after # "" /\ ~HasPrefix(after, "#"))
            THEN [ok |-> FALSE, val |-> None]
            ELSE [ok |-> TRUE, val |-> Some(SubSeq(rest, 2, j - 1))]
    ELSE
        LET c == IndexFrom(rest, " #", 1)
        IN  [ok |-> TRUE,
             val |-> Some(TrimRight(IF c = 0 THEN rest ELSE SubSeq(rest, 1, c - 1)))]

\* the scalar after "key:", already trimmed
ScalarValue(rest) ==
    IF rest = "" \/ HasPrefix(rest, "#") THEN [ok |-> TRUE, val |-> None]
    ELSE IF HasPrefix(rest, "\"") THEN
        LET j     == ClosingQuote(rest, 2)
            after == TrimSpace(SubSeq(rest, j + 1, Len(rest)))
        IN  IF j = 0 \/ (after # "" /\ ~HasPrefix(after, "#"))
            THEN [ok |-> FALSE, val |-> None]
            ELSE [ok |-> TRUE, val |-> Some(Unescape(SubSeq(rest, 2, j - 1)))]
    ELSE
        LET c == IndexFrom(rest, " #", 1)
        IN  [ok |-> TRUE,
             val |-> Some(TrimRight(IF c = 0 THEN rest ELSE SubSeq(rest, 1, c - 1)))]

\* one line of the file: skipped, an entry, or not a mapping entry
ParseLine(line) ==
    LET t == TrimSpace(line)
        c == IndexFrom(t, ":", 1)
        bad == [kind |-> "bad", indent |-> 0, key |-> "", val |-> None]
    IN  IF t = "" \/ HasPrefix(t, "#")
        THEN [kind |-> "skip", indent |-> 0, key |-> "", val |-> None]
        ELSE IF HasPrefix(line, "\t") \/ c = 0 THEN bad
        ELSE IF c < Len(t) /\ ~IsSpace(CharAt(t, c + 1)) THEN bad
        ELSE LET sv == ScalarValue(TrimSpace(SubSeq(t, c + 1, Len(t))))
             IN  IF ~sv.ok THEN bad
                 ELSE [kind |-> "entry", indent |-> Indent(line),
                       key |-> SubSeq(t, 1, c - 1), val |-> sv.val]

RECURSIVE ParseLines(_, _, _)
ParseLines(lines, i, acc) ==
    IF i > Len(lines) \/ acc.err THEN acc
    ELSE LET e == ParseLine(lines[i])
         IN  IF e.kind = "skip" THEN ParseLines(lines, i + 1, acc)
             ELSE IF e.kind = "bad"
                     \/ (acc.seen # {} /\ e.indent # acc.indent)
                     \/ e.key \in acc.seen
             THEN [acc EXCEPT !.err = TRUE]
             ELSE ParseLines(lines, i + 1,
                    [err    |-> FALSE,
                     indent |-> e.indent,
                     seen   |-> acc.seen \cup {e.key},
                     vals   |-> IF e.key \in Keys
                                THEN [acc.vals EXCEPT ![e.key] = e.val]
                                ELSE acc.vals])

\* the values of a config file's keys, or a parse error
ParseConfig(content) ==
    LET r == ParseLines(Split(content), 1,
                        [err |-> FALSE, indent |-> 0, seen |-> {}, vals |-> NoValues])
    IN  [err |-> r.err, vals |-> IF r.err THEN NoValues ELSE r.vals]

(***************************************************************************)
(* The resolver: GetString, Set, GetIssuePrefix, Initialize                *)
(***************************************************************************)

\* GetString reading the config file before the environment
GetStringFileFirst(vv, e, key) ==
    IF vv.nil THEN ""
    ELSE IF vv.override[key].has THEN vv.override[key].val
    ELSE IF vv.config[key].has THEN vv.config[key].val
    ELSE IF e[key].has /\ e[key].val # "" THEN e[key].val
    ELSE Default(key)

\* GetString on the merged view of a viper instance (explicit Set, then the
\* environment when the variable is set and not empty, then the config file,
\* then the default); "" on a nil singleton
GetString(vv, e, key) ==
    IF vv.nil THEN ""
    ELSE IF vv.override[key].has THEN vv.override[key].val
    ELSE IF e[key].has /\ e[key].val # "" THEN e[key].val
    ELSE IF vv.config[key].has THEN vv.config[key].val
    ELSE Default(key)

\* Set storing the value where the config file's values are, below the environment
SetBelowEnv(vv, key, value) ==
    IF vv.nil THEN vv ELSE [vv EXCEPT !.config[key] = Some(value)]

\* Set creating the instance when the singleton is nil
SetOnNil(vv, key, value) ==
    [vv EXCEPT !.nil = FALSE, !.override[key] = Some(value)]

\* Set: v.Set(key, value) unless the singleton is nil
Set(vv, key, value) ==
    IF vv.nil THEN vv ELSE [vv EXCEPT !.override[key] = Some(value)]

GetIssuePrefix == GetString(v, env, "issue-prefix")

\* strconv.ParseBool as cast.ToBool uses it: an unparsable string is false
ToBool(s) == s \in {"1", "t", "T", "true", "TRUE", "True"}

\* GetBool: false on a nil singleton, else the resolved value as a bool
GetBool(vv, e, key) == IF vv.nil THEN FALSE ELSE ToBool(GetString(vv, e, key))

Digits == <<"0", "1", "2", "3", "4", "5", "6", "7", "8", "9">>

IsDigit(c) == \E d \in 1..10 : Digits[d] = c

DigitValue(c) == (CHOOSE d \in 1..10 : Digits[d] = c) - 1

\* how many digits s starts with
RECURSIVE LeadingDigits(_)
LeadingDigits(s) ==
    IF Len(s) > 0 /\ IsDigit(CharAt(s, 1))
    THEN 1 + LeadingDigits(SubSeq(s, 2, Len(s))) ELSE 0

\* the value of a string of decimal digits
RECURSIVE Decimal(_)
Decimal(s) ==
    IF Len(s) = 0 THEN 0
    ELSE 10 * Decimal(SubSeq(s, 1, Len(s) - 1)) + DigitValue(CharAt(s, Len(s)))

\* a string of digits has octal digits only
IsOctal(s) == \A i \in 1..Len(s) : DigitValue(CharAt(s, i)) <= 7

\* the value of a string of octal digits
RECURSIVE Octal(_)
Octal(s) ==
    IF Len(s) = 0 THEN 0
    ELSE 8 * Octal(SubSeq(s, 1, Len(s) - 1)) + DigitValue(CharAt(s, Len(s)))

\* cast.ToInt on a string, strconv.ParseInt(s, 0, 0): the value of a decimal
\* numeral, of an octal one when it starts with 0, and 0 for a string that
\* is rejected (signs and the 0x, 0o, 0b forms are left out)
ToInt(s) ==
    IF Len(s) = 0 \/ LeadingDigits(s) # Len(s) THEN 0
    ELSE IF Len(s) > 1 /\ CharAt(s, 1) = "0"
    THEN (IF IsOctal(s) THEN Octal(s) ELSE 0)
    ELSE Decimal(s)

\* GetInt: 0 on a nil singleton, else the resolved value as an int
GetInt(vv, e, key) == IF vv.nil THEN 0 ELSE ToInt(GetString(vv, e, key))

\* n of the unit u in whole milliseconds; a number without a unit counts
\* nanoseconds; 0 for what is not a unit
Millis(n, u) ==
    CASE u = "" \/ u = "ns" -> n \div 1000000
      [] u = "us" -> n \div 1000
      [] u = "ms" -> n
      [] u = "s"  -> n * 1000
      [] u = "m"  -> n * 60000
      [] u = "h"  -> n * 3600000
      [] OTHER    -> 0

\* cast.ToDuration on a string, in whole milliseconds: digits and one unit
\* as time.ParseDuration reads them, 0 for a string it rejects (signs,
\* fractions and several units in a row are left out)
ToDuration(s) ==
    LET n == LeadingDigits(s)
    IN  IF n = 0 THEN 0
        ELSE Millis(Decimal(SubSeq(s, 1, n)), SubSeq(s, n + 1, Len(s)))

\* GetDuration: 0 on a nil singleton, else the resolved value as a duration
GetDuration(vv, e, key) == IF vv.nil THEN 0 ELSE ToDuration(GetString(vv, e, key))

\* map[string]interface{}{}
EmptyMap == [k \in {} |-> ""]

\* AllSettings: an empty map on a nil singleton, else every key with the
\* value it resolves to
AllSettings(vv, e) ==
    IF vv.nil THEN EmptyMap ELSE [k \in Keys |-> GetString(vv, e, k)]

\* os.Stat(<dir>/.beads/config.yaml) succeeds
HasConfig(l) == beads[l] = "dir" /\ cfgFile[l].exists

\* Initialize's walk: for dir := cwd; dir != filepath.Dir(dir); dir = filepath.Dir(dir).
\* Level 0 is its own parent, so the walk ends there without examining it;
\* 0 also stands for "not found".
RECURSIVE FindConfigLevel(_)
FindConfigLevel(l) ==
    IF l = 0 THEN 0 ELSE IF HasConfig(l) THEN l ELSE FindConfigLevel(l - 1)

\* ChosenConfigFile with the home directory tried before the user config directory
ChosenConfigFileHomeFirst(getwdOK) ==
    LET l == IF getwdOK THEN FindConfigLevel(cwd) ELSE 0
    IN  IF l # 0 THEN cfgFile[l]
        ELSE IF homeCfg.exists THEN homeCfg
        ELSE IF userCfg.exists THEN userCfg
        ELSE NoFile

\* the one file Initialize hands to v.SetConfigFile, NoFile when configFileSet stays false
ChosenConfigFile(getwdOK) ==
    LET l == IF getwdOK THEN FindConfigLevel(cwd) ELSE 0
    IN  IF l # 0 THEN cfgFile[l]
        ELSE IF userCfg.exists THEN userCfg
        ELSE IF homeCfg.exists THEN homeCfg
        ELSE NoFile

\* Initialize configuring the singleton it finds, where there is one, in
\* place of a new instance: values installed by Set stay
InitializeInPlace(fault) ==
    LET f == ChosenConfigFile(fault # "getwd")
        r == ParseConfig(f.data)
        base == IF v.nil THEN NewViper ELSE [v EXCEPT !.config = NoValues]
    IN  IF ~f.exists THEN [v |-> base, err |-> FALSE]
        ELSE IF r.err THEN [v |-> base, err |-> TRUE]
        ELSE [v |-> [base EXCEPT !.config = r.vals], err |-> FALSE]

\* Initialize: the new singleton and whether an error is returned
Initialize(fault) ==
    LET f == ChosenConfigFile(fault # "getwd")
        r == ParseConfig(f.data)
    IN  IF ~f.exists THEN [v |-> NewViper, err |-> FALSE]
        ELSE IF r.err THEN [v |-> NewViper, err |-> TRUE]
        ELSE [v |-> [NewViper EXCEPT !.config = r.vals], err |-> FALSE]

(***************************************************************************)
(* SetIssuePrefix                                                          *)
(***************************************************************************)

\* What can go wrong in one call; a call stops at its first failure.
\*   getwd    os.Getwd fails
\*   open     os.WriteFile cannot create or open the temp file
\*   short    os.WriteFile creates (or truncates) the temp file, then fails to write
\*   rename   os.Rename fails (os.Remove then removes the temp file)
\*   q1, q2   the settings query / the issues query fails (not "no rows")
IOFaults == {"none", "getwd", "open", "short", "rename"}

Faults == IOFaults \cup {"q1", "q2"}

\* SetIssuePrefix's walk for a .beads directory: 0 when beadsDir stays ""
RECURSIVE FindBeadsDir(_)
FindBeadsDir(l) ==
    IF l = 0 THEN 0 ELSE IF beads[l] = "dir" THEN l ELSE FindBeadsDir(l - 1)

\* A call's result: the error ("" for nil), the singleton, and the two files
\* of the project directory found (level dir; 0 when no file is touched).
Result(e, vv, l, cfg, tmp) == [err |-> e, v |-> vv, dir |-> l, cfg |-> cfg, tmp |-> tmp]

\* a result that leaves the files alone
InMemory(e, vv) == Result(e, vv, 0, NoFile, NoFile)

\* WriteConfig without the final Set: the file is updated, the singleton is not
WriteConfigFileOnly(l, prefix, fault) ==
    LET content == UpdateContent(IF cfgFile[l].exists THEN cfgFile[l].data ELSE "", prefix)
    IN  IF fault = "open"
        THEN Result("failed to write temp config file", v, l, cfgFile[l], tmpFile[l])
        ELSE IF fault = "short"
        THEN Result("failed to write temp config file", v, l, cfgFile[l], File(""))
        ELSE IF fault = "rename"
        THEN Result("failed to update config.yaml", v, l, cfgFile[l], NoFile)
        ELSE Result("", v, l, File(content), NoFile)

\* SetIssuePrefix once beadsDir is found at level l: read config.yaml (missing
\* file = empty content), rewrite, write config.yaml.tmp, rename it over
\* config.yaml, then update the singleton
WriteConfig(l, prefix, fault) ==
    LET content == UpdateContent(IF cfgFile[l].exists THEN cfgFile[l].data ELSE "", prefix)
    IN  IF fault = "open"
        THEN Result("failed to write temp config file", v, l, cfgFile[l], tmpFile[l])
        ELSE IF fault = "short"
        THEN Result("failed to write temp config file", v, l, cfgFile[l], File(""))
        ELSE IF fault = "rename"
        THEN Result("failed to update config.yaml", v, l, cfgFile[l], NoFile)
        ELSE Result("", Set(v, "issue-prefix", prefix), l, File(content), NoFile)

\* SetIssuePrefix without its check for the empty prefix
SetIssuePrefixUnchecked(prefix, fault) ==
    IF fault = "getwd" THEN InMemory("failed to get working directory", v)
    ELSE IF FindBeadsDir(cwd) = 0 THEN InMemory("", Set(v, "issue-prefix", prefix))
    ELSE WriteConfig(FindBeadsDir(cwd), prefix, fault)

\* config.SetIssuePrefix: the result of one call
SetIssuePrefix(prefix, fault) ==
    IF prefix = "" THEN InMemory("issue prefix cannot be empty", v)
    ELSE IF fault = "getwd" THEN InMemory("failed to get working directory", v)
    ELSE IF FindBeadsDir(cwd) = 0 THEN InMemory("", Set(v, "issue-prefix", prefix))
    ELSE WriteConfig(FindBeadsDir(cwd), prefix, fault)

(***************************************************************************)
(* MigrateConfigToYAML                                                     *)
(***************************************************************************)

\* utils.ExtractIssuePrefix: the identifier up to its last hyphen
ExtractIssuePrefix(id) ==
    LET i == LastIndexFrom(id, "-", Len(id))
    IN  IF i <= 1 THEN "" ELSE SubSeq(id, 1, i - 1)

\* SELECT value FROM config WHERE key = 'issue_prefix', scanned into dbPrefix
LegacyPrefix == IF dbConfig.has THEN dbConfig.val ELSE ""

\* SELECT id FROM issues ORDER BY created_at LIMIT 1, scanned into firstIssueID
FirstIssueID == IF Len(issues) = 0 THEN "" ELSE issues[1]

\* ObtainedPrefix with the issues consulted before the legacy setting
ObtainedPrefixIssuesFirst ==
    IF FirstIssueID # "" THEN ExtractIssuePrefix(FirstIssueID)
    ELSE LegacyPrefix

\* the prefix the migration obtains when both queries run
ObtainedPrefix ==
    IF LegacyPrefix # "" THEN LegacyPrefix
    ELSE IF FirstIssueID # "" THEN ExtractIssuePrefix(FirstIssueID)
    ELSE ""

\* MigrateConfigToYAML with sql.ErrNoRows returned like any other query error
MigrateNoRowsIsError(fault) ==
    LET skip(e) == [err |-> e, prefix |-> "", set |-> InMemory("", v)]
    IN  IF GetIssuePrefix # "" THEN skip("")
        ELSE IF fault = "q1" \/ ~dbConfig.has THEN skip("query failed")
        ELSE IF LegacyPrefix = "" /\ (fault = "q2" \/ Len(issues) = 0)
             THEN skip("query failed")
        ELSE IF ObtainedPrefix = "" THEN skip("")
        ELSE [err |-> "", prefix |-> ObtainedPrefix,
              set |-> SetIssuePrefix(ObtainedPrefix, fault)]

\* MigrateConfigToYAML taking a failed query for an empty answer
MigrateIgnoresQueryError(fault) ==
    LET skip(e) == [err |-> e, prefix |-> "", set |-> InMemory("", v)]
        first == IF FirstIssueID # "" /\ fault # "q2"
                 THEN ExtractIssuePrefix(FirstIssueID) ELSE ""
        dbPrefix == IF LegacyPrefix # "" /\ fault # "q1" THEN LegacyPrefix ELSE first
    IN  IF GetIssuePrefix # "" THEN skip("")
        ELSE IF dbPrefix = "" THEN skip("")
        ELSE [err |-> "", prefix |-> dbPrefix, set |-> SetIssuePrefix(dbPrefix, fault)]

\* MigrateConfigToYAML returning the error of SetIssuePrefix
MigrateReturnsWriteError(fault) ==
    LET skip(e) == [err |-> e, prefix |-> "", set |-> InMemory("", v)]
    IN  IF GetIssuePrefix # "" THEN skip("")
        ELSE IF fault = "q1" THEN skip("query failed")
        ELSE IF LegacyPrefix = "" /\ fault = "q2" THEN skip("query failed")
        ELSE IF ObtainedPrefix = "" THEN skip("")
        ELSE [err |-> SetIssuePrefix(ObtainedPrefix, fault).err, prefix |-> ObtainedPrefix,
              set |-> SetIssuePrefix(ObtainedPrefix, fault)]

\* the migration's result: the error returned, the prefix handed to
\* SetIssuePrefix ("" when it is not called) and that call's result
MigrateConfigToYAML(fault) ==
    LET skip(e) == [err |-> e, prefix |-> "", set |-> InMemory("", v)]
    IN  IF GetIssuePrefix # "" THEN skip("")
        ELSE IF fault = "q1" THEN skip("query failed")
        ELSE IF LegacyPrefix = "" /\ fault = "q2" THEN skip("query failed")
        ELSE IF ObtainedPrefix = "" THEN skip("")
        ELSE [err |-> "", prefix |-> ObtainedPrefix,
              set |-> SetIssuePrefix(ObtainedPrefix, fault)]

(***************************************************************************)
(* Initial states: a process that has not called Initialize, in a working  *)
(* directory MaxDepth levels below the root, with an empty database.       *)
(***************************************************************************)

\* .beads entries: directories at the levels of S, a regular file at those of F
Layout(S, F) ==
    [l \in Levels |-> IF l \in S THEN "dir" ELSE IF l \in F THEN "file" ELSE "none"]

\* the nearest .beads directory of a layout, root excluded; 0 when none
RECURSIVE NearestDir(_, _)
NearestDir(b, l) == IF l = 0 THEN 0 ELSE IF b[l] = "dir" THEN l ELSE NearestDir(b, l - 1)

NoEnv == [k \in Keys |-> None]

\* BD_ISSUE_PREFIX=envp
PrefixEnv == [k \in Keys |-> IF k = "issue-prefix" THEN Some("envp") ELSE None]

\* BD_ISSUE_PREFIX= (set, to the empty string) and BD_JSON=true
EmptyPrefixEnv == [k \in Keys |-> IF k = "issue-prefix" THEN Some("") ELSE Some("true")]

Start(b, f, e, u, h) == [beads |-> b, file |-> f, env |-> e, user |-> u, home |-> h]

\* The files a project's config.yaml starts as.
ProjectFiles == {NoFile} \cup {File(d) : d \in InitContents}

\* Starting points of the rewrite's specification: every content of the
\* project's config file under a marker in the working directory, and a
\* working directory without any marker, with and without BD_ISSUE_PREFIX.
RewriteStarts ==
    {Start(Layout({MaxDepth}, {}), f, e, NoFile, NoFile) :
        f \in ProjectFiles, e \in {NoEnv, PrefixEnv, EmptyPrefixEnv}}
    \cup
    {Start(Layout({}, {}), NoFile, e, NoFile, NoFile) : e \in {NoEnv, PrefixEnv}}

\* Starting points of the whole program's specification: the places a marker
\* can be, with a project file that declares the prefix, declares it in a
\* comment only, is empty or is missing; and the environment, user and home
\* files where no project file hides them.
Starts ==
    LET c == MaxDepth
        declared == File("issue-prefix: \"old\"\njson: true\n")
    IN  {Start(Layout({c}, {}), f, NoEnv, NoFile, NoFile) :
            f \in {NoFile, File(""), declared,
                   File("# issue-prefix: \"commented\"\njson: true\n")}}
        \cup
        {Start(b, f, NoEnv, NoFile, NoFile) :
            b \in {Layout({}, {}), Layout({c - 1}, {}), Layout({c - 1}, {c}),
                   Layout({c, c - 1}, {}), Layout({0}, {})},
            f \in {NoFile, declared}}
        \cup
        {Start(Layout({}, {}), NoFile, e, g[1], g[2]) :
            e \in {NoEnv, PrefixEnv},
            g \in {<<NoFile, NoFile>>, <<File(UserContent), File(HomeContent)>>}}
        \cup
        {Start(Layout({c}, {}), NoFile, PrefixEnv, NoFile, NoFile),
         Start(Layout({c}, {}), File("json: true\n"), NoEnv,
               File(UserContent), File(HomeContent)),
         Start(Layout({}, {}), NoFile, NoEnv, NoFile, File(HomeContent))}

NoCall == [op |-> "none", prefix |-> "", err |-> "", dir |-> 0, again |-> FALSE,
           hadSet |-> FALSE]

\* the state a starting point describes
StartAt(s) ==
    /\ v = Nil
    /\ cwd = MaxDepth
    /\ env = s.env
    /\ beads = s.beads
    /\ cfgFile = [l \in Levels |->
                     IF s.beads[l] # "dir" THEN NoFile
                     ELSE IF l = NearestDir(s.beads, MaxDepth) THEN s.file
                     ELSE File(OuterContent)]
    /\ userCfg = s.user
    /\ homeCfg = s.home
    /\ tmpFile = [l \in Levels |-> NoFile]
    /\ dbConfig = None
    /\ issues = <<>>
    /\ last = NoCall
    /\ migrated = "no"

\* no concurrent call is under way
NoWriters ==
    /\ inodes = <<>>
    /\ configPath = 0
    /\ tmpPath = 0
    /\ pc = [w \in Writers |-> "idle"]
    /\ newContent = [w \in Writers |-> ""]
    /\ fd = [w \in Writers |-> 0]
    /\ inMemory = [w \in Writers |-> ""]
    /\ observed = NoFile
    /\ complete = {}

\* the database files a project's .beads directory can hold: the canonical
\* beads.db, the legacy vc.db, and a custom one named by metadata.json
DbNames == <<"beads.db", "beady.db", "vc.db">>

NoDb == [exists |-> FALSE, valid |-> FALSE, version |-> ""]

\* a database file whose metadata holds bd_version = version
Db(version) == [exists |-> TRUE, valid |-> TRUE, version |-> version]

\* a file of that name that does not open as a database
CorruptDb == [exists |-> TRUE, valid |-> FALSE, version |-> ""]

\* no database directory is looked at
NoDatabases ==
    /\ dbFiles = [n \in {DbNames[i] : i \in 1..Len(DbNames)} |-> NoDb]
    /\ dbLast = "none"

Init == \E s \in Starts : StartAt(s) /\ NoWriters /\ NoDatabases

InitRewrite == \E s \in RewriteStarts : StartAt(s) /\ NoWriters /\ NoDatabases

(***************************************************************************)
(* Actions: one per call                                                   *)
(***************************************************************************)

\* the files of the project directory after a SetIssuePrefix result
Written(r) ==
    /\ cfgFile' = IF r.dir = 0 THEN cfgFile ELSE [cfgFile EXCEPT ![r.dir] = r.cfg]
    /\ tmpFile' = IF r.dir = 0 THEN tmpFile ELSE [tmpFile EXCEPT ![r.dir] = r.tmp]

\* the record of a call: its argument, the error returned ("" for nil), the
\* project directory it found (0: none), whether it repeats the call
\* before it: SetIssuePrefix with the same prefix, which had succeeded, and
\* whether the singleton held an explicit Set of issue-prefix when it was made
Call(op, prefix, err, d) ==
    [op |-> op, prefix |-> prefix, err |-> err, dir |-> d,
     again |-> /\ op = "SetIssuePrefix" /\ last.op = "SetIssuePrefix"
               /\ last.prefix = prefix /\ last.err = "",
     hadSet |-> v.override["issue-prefix"].has]

\* process startup, or a test, calls config.Initialize()
CallInitialize(fault) ==
    LET r == Initialize(fault)
    IN  /\ v' = r.v
        /\ last' = Call("Initialize", "", IF r.err THEN "error reading config file" ELSE "", 0)
        /\ UNCHANGED <<env, cwd, beads, cfgFile, tmpFile, userCfg, homeCfg, dbConfig, issues, migrated>>
        /\ UNCHANGED <<cvars, dvars>>

\* a command calls config.SetIssuePrefix(prefix)
CallSetIssuePrefix(prefix, fault) ==
    LET r == SetIssuePrefix(prefix, fault)
    IN  /\ v' = r.v
        /\ Written(r)
        /\ last' = Call("SetIssuePrefix", prefix, r.err, r.dir)
        /\ UNCHANGED <<env, cwd, beads, userCfg, homeCfg, dbConfig, issues, migrated>>
        /\ UNCHANGED <<cvars, dvars>>

\* a storage open runs MigrateConfigToYAML
StorageOpen(fault) ==
    LET m == MigrateConfigToYAML(fault)
    IN  /\ v' = m.set.v
        /\ Written(m.set)
        /\ last' = Call("MigrateConfigToYAML", m.prefix, m.err, m.set.dir)
        /\ migrated' = IF m.prefix # "" /\ m.set.err = "" /\ m.set.dir # 0
                        THEN "this process" ELSE migrated
        /\ UNCHANGED <<env, cwd, beads, userCfg, homeCfg, dbConfig, issues>>
        /\ UNCHANGED <<cvars, dvars>>

\* store.SetConfig(ctx, "issue_prefix", value): a write of the legacy setting
SetConfig(value) ==
    /\ dbConfig # Some(value)
    /\ dbConfig' = Some(value)
    /\ last' = Call("SetConfig", value, "", 0)
    /\ UNCHANGED <<v, env, cwd, beads, cfgFile, tmpFile, userCfg, homeCfg, issues, migrated>>
    /\ UNCHANGED <<cvars, dvars>>

\* an issue is created: it is the earliest one only if it is the first
CreateIssue(id) ==
    /\ Len(issues) < Min(MaxIssues, Len(IssuePool))
    /\ id = IssuePool[Len(issues) + 1]
    /\ issues' = Append(issues, id)
    /\ last' = Call("CreateIssue", id, "", 0)
    /\ UNCHANGED <<v, env, cwd, beads, cfgFile, tmpFile, userCfg, homeCfg, dbConfig, migrated>>
    /\ UNCHANGED <<cvars, dvars>>

\* the process ends and the next command starts one: its singleton is nil
NewProcess ==
    /\ ~v.nil
    /\ v' = Nil
    /\ last' = Call("NewProcess", "", "", 0)
    /\ migrated' = IF migrated = "no" THEN "no" ELSE "earlier process"
    /\ UNCHANGED <<env, cwd, beads, cfgFile, tmpFile, userCfg, homeCfg, dbConfig, issues>>
    /\ UNCHANGED <<cvars, dvars>>

Next ==
    \/ \E fault \in {"none", "getwd"} : CallInitialize(fault)
    \/ \E prefix \in Prefixes \cup {""}, fault \in IOFaults : CallSetIssuePrefix(prefix, fault)
    \/ \E fault \in Faults : StorageOpen(fault)
    \/ \E value \in Prefixes \cup {""} : SetConfig(value)
    \/ \E id \in {IssuePool[i] : i \in 1..Len(IssuePool)} : CreateIssue(id)
    \/ NewProcess

Spec == Init /\ [][Next]_vars

\* The resolver and the rewrite alone, over every starting content.
NextRewrite ==
    \/ \E fault \in {"none", "getwd"} : CallInitialize(fault)
    \/ \E prefix \in Prefixes \cup {""}, fault \in IOFaults : CallSetIssuePrefix(prefix, fault)
    \/ NewProcess

SpecRewrite == InitRewrite /\ [][NextRewrite]_vars

(***************************************************************************)
(* Concurrent calls: NWriters processes each call SetIssuePrefix once in   *)
(* the working directory's project, writer w with the prefix PrefixPool[w],*)
(* while another process reads config.yaml.  A call is the system calls of *)
(* its file handling, one step each: os.ReadFile; os.WriteFile's open of   *)
(* config.yaml.tmp (O_WRONLY|O_CREATE|O_TRUNC) and its write; os.Rename.   *)
(* os.ReadFile and the write are taken as one step each.                   *)
(***************************************************************************)

\* the file a path names
FileAt(ino, nodes) == IF ino = 0 THEN NoFile ELSE File(nodes[ino])

\* the two paths as the other variables see them
Paths ==
    /\ cfgFile' = [cfgFile EXCEPT ![cwd] = FileAt(configPath', inodes')]
    /\ tmpFile' = [tmpFile EXCEPT ![cwd] = FileAt(tmpPath', inodes')]

\* a write of data at offset 0 into a file holding old
WriteAt0(old, data) ==
    IF Len(data) >= Len(old) THEN data
    ELSE data \o SubSeq(old, Len(data) + 1, Len(old))

\* Contents of the project's config file before the concurrent calls.
ConcContents == {"json: true\n", "issue-prefix: \"old\"\njson: true\n"}

InitConc ==
    /\ \E d \in ConcContents :
         /\ StartAt(Start(Layout({MaxDepth}, {}), File(d), NoEnv, NoFile, NoFile))
         /\ inodes = <<d>>
         /\ complete = {File(d)}
         /\ observed = File(d)
    /\ NoDatabases
    /\ configPath = 1
    /\ tmpPath = 0
    /\ pc = [w \in Writers |-> "idle"]
    /\ newContent = [w \in Writers |-> ""]
    /\ fd = [w \in Writers |-> 0]
    /\ inMemory = [w \in Writers |-> ""]

\* what no step of a concurrent call changes
ConcFrame ==
    UNCHANGED <<v, env, cwd, beads, userCfg, homeCfg, dbConfig, issues, last, migrated, dvars>>

\* the call up to its join: the marker is found, config.yaml is read and the
\* lines are updated
ReadConfig(w) ==
    /\ pc[w] = "idle"
    /\ FindBeadsDir(cwd) = cwd
    /\ LET existing == FileAt(configPath, inodes)
           content == UpdateContent(IF existing.exists THEN existing.data ELSE "",
                                    PrefixPool[w])
       IN  /\ newContent' = [newContent EXCEPT ![w] = content]
           /\ complete' = complete \cup {File(content)}
    /\ pc' = [pc EXCEPT ![w] = "open"]
    /\ UNCHANGED <<inodes, configPath, tmpPath, fd, inMemory, observed>>
    /\ Paths
    /\ ConcFrame

\* os.WriteFile opens config.yaml.tmp: the file is created if the path names
\* none, and cut to no bytes if it names one
OpenTemp(w) ==
    /\ pc[w] = "open"
    /\ IF tmpPath = 0
       THEN /\ inodes' = Append(inodes, "")
            /\ tmpPath' = Len(inodes) + 1
       ELSE /\ inodes' = [inodes EXCEPT ![tmpPath] = ""]
            /\ tmpPath' = tmpPath
    /\ fd' = [fd EXCEPT ![w] = tmpPath']
    /\ pc' = [pc EXCEPT ![w] = "write"]
    /\ UNCHANGED <<configPath, newContent, inMemory, observed, complete>>
    /\ Paths
    /\ ConcFrame

\* os.WriteFile writes the content to the file it opened and closes it
WriteTemp(w) ==
    /\ pc[w] = "write"
    /\ inodes' = [inodes EXCEPT ![fd[w]] = WriteAt0(inodes[fd[w]], newContent[w])]
    /\ pc' = [pc EXCEPT ![w] = "rename"]
    /\ UNCHANGED <<configPath, tmpPath, newContent, fd, inMemory, observed, complete>>
    /\ Paths
    /\ ConcFrame

\* os.Rename(tmpPath, configPath): it fails when config.yaml.tmp names no
\* file any more (os.Remove then finds nothing to remove); when it succeeds
\* the process's singleton is set
RenameTemp(w) ==
    /\ pc[w] = "rename"
    /\ IF tmpPath = 0
       THEN /\ pc' = [pc EXCEPT ![w] = "failed to update config.yaml"]
            /\ UNCHANGED <<configPath, tmpPath, inMemory>>
       ELSE /\ configPath' = tmpPath
            /\ tmpPath' = 0
            /\ inMemory' = [inMemory EXCEPT ![w] = PrefixPool[w]]
            /\ pc' = [pc EXCEPT ![w] = "returned"]
    /\ UNCHANGED <<inodes, newContent, fd, observed, complete>>
    /\ Paths
    /\ ConcFrame

\* another process reads config.yaml
ReadByOther ==
    /\ observed' = FileAt(configPath, inodes)
    /\ observed' # observed
    /\ UNCHANGED <<inodes, configPath, tmpPath, pc, newContent, fd, inMemory, complete>>
    /\ Paths
    /\ ConcFrame

NextConc ==
    \/ \E w \in Writers : ReadConfig(w)
    \/ \E w \in Writers : OpenTemp(w)
    \/ \E w \in Writers : WriteTemp(w)
    \/ \E w \in Writers : RenameTemp(w)
    \/ ReadByOther

SpecConc == InitConc /\ [][NextConc]_vars

(***************************************************************************)
(* The migrate operation on a project's database directory: discovery      *)
(* (detectDatabases, getDBVersion) and the rename of the legacy file.      *)
(***************************************************************************)

\* Version markers a database file may hold.
Versions == {"0.16.0", "0.21.1"}

NameSet == {DbNames[i] : i \in 1..Len(DbNames)}

\* getDBVersion(path): the version marker, "" when the file cannot be read
getDBVersion(files, name) ==
    IF files[name].exists /\ files[name].valid THEN files[name].version ELSE ""

\* detectDatabases(dir): a record per file that opens as a database, in
\* listing order; a file that does not is skipped
RECURSIVE detectFrom(_, _)
detectFrom(files, i) ==
    IF i > Len(DbNames) THEN <<>>
    ELSE (IF files[DbNames[i]].exists /\ files[DbNames[i]].valid
          THEN <<[path |-> DbNames[i], version |-> getDBVersion(files, DbNames[i])]>>
          ELSE <<>>) \o detectFrom(files, i + 1)

detectDatabases(files) == detectFrom(files, 1)

\* some discovered record has this name
Discovered(files, name) ==
    \E i \in 1..Len(detectDatabases(files)) : detectDatabases(files)[i].path = name

\* ShouldRename without the look for a canonical-named record
ShouldRenameAnyway(files) == Discovered(files, "vc.db")

\* the migrator's decision on the discovered records: one legacy-named
\* record and no canonical-named one
ShouldRename(files) == Discovered(files, "vc.db") /\ ~Discovered(files, "beads.db")

\* os.Rename(vc.db, beads.db): the file takes the new name, replacing what
\* was there
Renamed(files) == [files EXCEPT !["beads.db"] = files["vc.db"], !["vc.db"] = NoDb]

DbFrame ==
    UNCHANGED <<v, env, cwd, beads, cfgFile, tmpFile, userCfg, homeCfg, dbConfig, issues, last, migrated, cvars>>

\* the migrate operation: discovery, then the rename if it is called for
MigrateDatabase ==
    /\ dbFiles' = IF ShouldRename(dbFiles) THEN Renamed(dbFiles) ELSE dbFiles
    /\ dbLast' = IF ShouldRename(dbFiles) THEN "renamed" ELSE "kept"
    /\ DbFrame

\* store.SetMetadata(ctx, "bd_version", version) on an open database
SetMetadata(name, version) ==
    /\ dbFiles[name].exists /\ dbFiles[name].valid
    /\ dbFiles[name].version # version
    /\ dbFiles' = [dbFiles EXCEPT ![name].version = version]
    /\ dbLast' = "SetMetadata"
    /\ DbFrame

InitDb ==
    /\ StartAt(Start(Layout({MaxDepth}, {}), NoFile, NoEnv, NoFile, NoFile))
    /\ NoWriters
    /\ dbFiles \in [NameSet -> {NoDb, CorruptDb} \cup {Db(ver) : ver \in Versions}]
    /\ dbLast = "none"

NextDb ==
    \/ MigrateDatabase
    \/ \E name \in NameSet, version \in Versions : SetMetadata(name, version)

SpecDb == InitDb /\ [][NextDb]_vars

(***************************************************************************)
(* Properties                                                              *)
(***************************************************************************)

\* the project directory SetIssuePrefix writes to from here (0: none)
ProjectDir == NearestDir(beads, cwd)

\* the lines of a text, none for the empty text
LinesOf(content) == IF content = "" THEN <<>> ELSE Split(content)

\* some line of the text is exactly this line
HasLine(content, line) ==
    \E i \in 1..Len(LinesOf(content)) : LinesOf(content)[i] = line

\* the file holds an uncommented, non-empty declaration of the issue prefix
Declares(file) ==
    /\ file.exists
    /\ ~ParseConfig(file.data).err
    /\ ParseConfig(file.data).vals["issue-prefix"].has
    /\ ParseConfig(file.data).vals["issue-prefix"].val # ""

\* C1: once the project's config file holds an uncommented, non-empty
\* issue-prefix declaration, no storage open changes any byte of it, whatever
\* the legacy settings table and the issues hold.
C1_DeclaredPrefixNeverOverwritten ==
    [][ (/\ \E fault \in Faults : StorageOpen(fault)
         /\ ProjectDir # 0
         /\ Declares(cfgFile[ProjectDir]))
        => cfgFile' = cfgFile ]_vars

\* the prefix the claims expect a storage open to obtain: the legacy setting
\* if it is non-empty, otherwise the prefix of the earliest issue's identifier
ClaimedPrefix ==
    IF dbConfig.has /\ dbConfig.val # "" THEN dbConfig.val
    ELSE IF Len(issues) > 0 THEN ExtractIssuePrefix(issues[1])
    ELSE ""

\* the queries the migration runs under this fault answer (possibly "no rows")
QueriesAnswer(fault) ==
    /\ fault # "q1"
    /\ fault = "q2" => (dbConfig.has /\ dbConfig.val # "")

\* a storage open that fills a gap: the resolver reports no prefix, a project
\* marker directory exists and the database yields a prefix
GapFill(fault) ==
    /\ StorageOpen(fault)
    /\ GetIssuePrefix = ""
    /\ ProjectDir # 0
    /\ QueriesAnswer(fault)
    /\ ClaimedPrefix # ""

\* C3 as stated: after a gap-filling storage open that obtained p,
\* GetIssuePrefix() = p and the config file contains the line issue-prefix: "p".
C3_GapFillAsStated ==
    [][ \A fault \in Faults :
          GapFill(fault) =>
            /\ GetIssuePrefix' = ClaimedPrefix
            /\ HasLine(cfgFile'[ProjectDir].data,
                       "issue-prefix: \"" \o ClaimedPrefix \o "\"") ]_vars

\* C3, amended: a gap-filling storage open hands p (the legacy setting if
\* non-empty, otherwise the earliest issue's prefix) to SetIssuePrefix and
\* returns nil; when that write meets no I/O failure the config file then
\* contains the line issue-prefix: followed by p quoted as %q quotes it, and
\* GetIssuePrefix() = p if the singleton is not nil.
C3_GapFill ==
    [][ \A fault \in Faults :
          GapFill(fault) =>
            /\ last'.prefix = ClaimedPrefix
            /\ last'.err = ""
            /\ fault \notin {"getwd", "open", "short", "rename"} =>
                 /\ HasLine(cfgFile'[ProjectDir].data, PrefixLine(ClaimedPrefix))
                 /\ ~v.nil => GetIssuePrefix' = ClaimedPrefix ]_vars

\* a storage open took the prefix from the earliest issue, the legacy setting
\* being empty, wrote it and the resolver reports it
C3_Witness ==
    /\ last.op = "MigrateConfigToYAML"
    /\ last.err = ""
    /\ last.prefix = "old-prefix"
    /\ dbConfig = Some("")
    /\ ~v.nil
    /\ GetIssuePrefix = "old-prefix"
    /\ ProjectDir # 0
    /\ HasLine(cfgFile[ProjectDir].data, "issue-prefix: \"old-prefix\"")

\* C4: a storage open with no prefix anywhere (the resolver reports none, the
\* legacy setting is absent or empty, there are no issues) returns nil, leaves
\* every config file and temp file as it was and GetIssuePrefix() stays empty.
C4_NoPrefixAnywhereIsNoOp ==
    [][ \A fault \in IOFaults :
          (/\ StorageOpen(fault)
           /\ GetIssuePrefix = ""
           /\ ~dbConfig.has \/ dbConfig.val = ""
           /\ Len(issues) = 0)
          => /\ last'.err = ""
             /\ cfgFile' = cfgFile
             /\ tmpFile' = tmpFile
             /\ GetIssuePrefix' = "" ]_vars

\* a storage open found an empty project file, an empty legacy setting and no
\* issues, and left the file empty
C4_Witness ==
    /\ last.op = "MigrateConfigToYAML"
    /\ last.err = ""
    /\ last.prefix = ""
    /\ ~v.nil
    /\ GetIssuePrefix = ""
    /\ dbConfig = Some("")
    /\ Len(issues) = 0
    /\ ProjectDir # 0
    /\ cfgFile[ProjectDir] = File("")

\* the line issue-prefix: "p" as the claims write it
StatedLine(p) == "issue-prefix: \"" \o p \o "\""

\* an uncommented line whose trimmed text starts with issue-prefix:
IsTarget(line) ==
    LET t == TrimSpace(line)
    IN  Len(t) >= 13 /\ SubSeq(t, 1, 13) = "issue-prefix:"

\* a commented-out declaration
IsCommented(line) ==
    LET t == TrimSpace(line)
    IN  Len(t) >= 1 /\ SubSeq(t, 1, 1) = "#" /\ Contains(t, "issue-prefix:")

Targets(lines) == {i \in 1..Len(lines) : IsTarget(lines[i])}

FirstTarget(lines) == CHOOSE i \in Targets(lines) : \A j \in Targets(lines) : i <= j

\* the lines of the project's config file before and after a step
LinesBefore ==
    LinesOf(IF cfgFile[ProjectDir].exists THEN cfgFile[ProjectDir].data ELSE "")

LinesAfter ==
    LinesOf(IF cfgFile'[ProjectDir].exists THEN cfgFile'[ProjectDir].data ELSE "")

\* SetIssuePrefix(p), p non-empty, runs to its end in a project directory
Rewrites(p) ==
    /\ CallSetIssuePrefix(p, "none")
    /\ p # ""
    /\ ProjectDir # 0

C6_CommentedNeverChosen ==
    [][ \A p \in Prefixes :
          (/\ Rewrites(p)
           /\ Targets(LinesBefore) = {}
           /\ \E i \in 1..Len(LinesBefore) : IsCommented(LinesBefore[i]))
          => /\ LinesAfter[1] = PrefixLine(p)
             /\ Targets(LinesAfter) = {1}
             /\ Len(LinesAfter) = Len(LinesBefore) + 2
             /\ \A i \in 1..Len(LinesBefore) :
                  IsCommented(LinesBefore[i]) => LinesAfter[i + 2] = LinesBefore[i] ]_vars

\* the commented declaration stands below the new active line
C6_Witness ==
    /\ last.op = "SetIssuePrefix"
    /\ last.err = ""
    /\ ProjectDir # 0
    /\ cfgFile[ProjectDir].data
         = "issue-prefix: \"bd\"\n\n# issue-prefix: \"commented\"\njson: true\n"

\* C7: a SetIssuePrefix(p) that follows a successful SetIssuePrefix(p) leaves
\* every config file byte-identical.
C7_Idempotent == [][ last'.again => cfgFile' = cfgFile ]_vars

\* the second of two successful calls with the same prefix has come back, the
\* file holding one declaration added by the first
C7_Witness ==
    /\ last.again
    /\ last.err = ""
    /\ last.dir # 0
    /\ cfgFile[last.dir].data = "issue-prefix: \"bd\"\n\njson: true\n"

\* C8: SetIssuePrefix("") returns an error and leaves the config files, the
\* temp files and the singleton as they were.
C8_EmptyPrefixRejected ==
    [][ \A fault \in IOFaults :
          CallSetIssuePrefix("", fault)
          => /\ last'.err = "issue prefix cannot be empty"
             /\ cfgFile' = cfgFile
             /\ tmpFile' = tmpFile
             /\ v' = v
             /\ GetIssuePrefix' = GetIssuePrefix ]_vars

\* the empty prefix was refused in a project directory whose file declares one
C8_Witness ==
    /\ last.op = "SetIssuePrefix"
    /\ last.prefix = ""
    /\ last.err = "issue prefix cannot be empty"
    /\ ~v.nil
    /\ ProjectDir # 0
    /\ cfgFile[ProjectDir] = File("issue-prefix: \"old\"\njson: true\n")

\* no directory from the working directory up to the root has a .beads directory
NoMarker == \A l \in 0..cwd : beads[l] # "dir"

\* SetIssuePrefix(p), p non-empty, with no marker and the working directory known
InMemoryOnly(p, fault) ==
    /\ CallSetIssuePrefix(p, fault)
    /\ p # ""
    /\ fault # "getwd"
    /\ NoMarker

\* C9 as stated: with no marker directory, SetIssuePrefix(p) returns success,
\* writes no file and GetIssuePrefix() = p afterwards.
C9_NoMarkerInMemoryAsStated ==
    [][ \A p \in Prefixes, fault \in IOFaults :
          InMemoryOnly(p, fault)
          => /\ last'.err = ""
             /\ cfgFile' = cfgFile
             /\ tmpFile' = tmpFile
             /\ GetIssuePrefix' = p ]_vars

\* C9, amended: with no marker directory, SetIssuePrefix(p) returns success
\* and writes no file; GetIssuePrefix() = p afterwards if Initialize has been
\* called, and on a nil singleton nothing at all changes.
C9_NoMarkerInMemory ==
    [][ \A p \in Prefixes, fault \in IOFaults :
          InMemoryOnly(p, fault)
          => /\ last'.err = ""
             /\ cfgFile' = cfgFile
             /\ tmpFile' = tmpFile
             /\ IF v.nil THEN v' = v /\ GetIssuePrefix' = ""
                ELSE GetIssuePrefix' = p ]_vars

\* without any marker the prefix was set in memory, over BD_ISSUE_PREFIX, and
\* no config or temp file exists
C9_Witness ==
    /\ last.op = "SetIssuePrefix"
    /\ last.err = ""
    /\ last.dir = 0
    /\ last.prefix = "bd"
    /\ NoMarker
    /\ ~v.nil
    /\ env = PrefixEnv
    /\ GetIssuePrefix = "bd"
    /\ \A l \in Levels : ~cfgFile[l].exists /\ ~tmpFile[l].exists

\* C10 as stated: right after a SetIssuePrefix(p) that returned nil,
\* GetIssuePrefix() = p, whatever the singleton was.
C10_VisibleInProcessAsStated ==
    (last.op = "SetIssuePrefix" /\ last.err = "") => GetIssuePrefix = last.prefix

\* C10, amended: right after a SetIssuePrefix(p) that returned nil,
\* GetIssuePrefix() = p if the singleton is not nil, and "" if it is.
C10_VisibleInProcess ==
    (last.op = "SetIssuePrefix" /\ last.err = "")
        => GetIssuePrefix = IF v.nil THEN "" ELSE last.prefix

\* a prefix written to the project file is reported by a singleton that had
\* read another one from that file
C10_Witness ==
    /\ last.op = "SetIssuePrefix"
    /\ last.err = ""
    /\ last.dir # 0
    /\ ~v.nil
    /\ v.config["issue-prefix"] = Some("old")
    /\ last.prefix = "bd"
    /\ GetIssuePrefix = "bd"

\* C2: whatever another process reads at config.yaml while SetIssuePrefix
\* calls run is the complete content from before the calls or the complete
\* content some call joined, never an empty, cut or partly written file.
C2_ReadersSeeCompleteContent == observed \in complete

\* the value the config file gives a key, None when the file does not define
\* it or there is no file
FileValue(file, key) ==
    IF file.exists THEN ParseConfig(file.data).vals[key] ELSE None

\* Initialize runs in the working directory and returns nil
Initialized ==
    /\ CallInitialize("none")
    /\ last'.err = ""

\* the project file Initialize finds in the working directory, if there is one
LocalFile == IF beads[cwd] = "dir" THEN cfgFile[cwd] ELSE NoFile

Candidates ==
    << IF FindConfigLevel(cwd) # 0 THEN cfgFile[FindConfigLevel(cwd)] ELSE NoFile,
       userCfg, homeCfg >>

\* the first candidate that exists, NoFile when none does
FirstExisting ==
    LET E == {i \in 1..3 : Candidates[i].exists}
    IN  IF E = {} THEN NoFile
        ELSE Candidates[CHOOSE i \in E : \A j \in E : i <= j]

\* C12: after Initialize the singleton's config-file layer holds exactly the
\* keys and values of the first existing location in the order project, user,
\* home (nothing when that file cannot be read as YAML or none exists); no
\* key comes from a location further down.
C12_OneFileNoMerge ==
    [][ CallInitialize("none") =>
          \A k \in Keys :
            v'.config[k] = IF last'.err = "" THEN FileValue(FirstExisting, k)
                           ELSE None ]_vars

\* with user and home files and no project file, the user file's prefix is
\* loaded and the home file's json: true is not
C12_Witness ==
    /\ last.op = "Initialize"
    /\ last.err = ""
    /\ FindConfigLevel(cwd) = 0
    /\ userCfg = File(UserContent)
    /\ homeCfg = File(HomeContent)
    /\ v.config["issue-prefix"] = Some("user")
    /\ ~v.config["json"].has
    /\ GetString(v, env, "json") = "false"

\* C13: when a storage open obtains a prefix and the SetIssuePrefix call it
\* makes returns an error (working directory, temp-file write or rename), the
\* migration has made that call and returns nil.
C13_WriteFailureSwallowed ==
    [][ \A fault \in IOFaults :
          (/\ StorageOpen(fault)
           /\ GetIssuePrefix = ""
           /\ ClaimedPrefix # ""
           /\ SetIssuePrefix(ClaimedPrefix, fault).err # "")
          => /\ last'.err = ""
             /\ last'.prefix = ClaimedPrefix ]_vars

\* a storage open of an initialized process obtained a prefix, the temp-file
\* write failed half-way, and the open returned nil with nothing migrated
C13_Witness ==
    /\ last.op = "MigrateConfigToYAML"
    /\ last.err = ""
    /\ last.prefix = "bd"
    /\ ~v.nil
    /\ GetIssuePrefix = ""
    /\ ProjectDir # 0
    /\ tmpFile[ProjectDir] = File("")
    /\ ~HasLine(cfgFile[ProjectDir].data, PrefixLine("bd"))

\* the legacy-settings query runs and fails, or answers with nothing and the
\* earliest-issue query runs and fails
QueryFails(fault) ==
    /\ GetIssuePrefix = ""
    /\ \/ fault = "q1"
       \/ fault = "q2" /\ (~dbConfig.has \/ dbConfig.val = "")

\* C14: a query of the migration that finds no row is no error, the missing
\* value counting as empty; a query that fails otherwise makes the storage
\* open return that error with every config file, temp file and the singleton
\* as they were.
C14_QueryErrorsPropagate ==
    [][ \A fault \in Faults :
          StorageOpen(fault) =>
            /\ QueryFails(fault) =>
                 /\ last'.err = "query failed"
                 /\ cfgFile' = cfgFile
                 /\ tmpFile' = tmpFile
                 /\ v' = v
            /\ (~QueryFails(fault) /\ (~dbConfig.has \/ Len(issues) = 0)) =>
                 /\ last'.err = ""
                 /\ GetIssuePrefix = "" => last'.prefix = ClaimedPrefix ]_vars

\* the earliest-issue query failed in an initialized process with an issue in
\* the database and no legacy setting; nothing was written
C14_Witness ==
    /\ last.op = "MigrateConfigToYAML"
    /\ last.err = "query failed"
    /\ ~v.nil
    /\ ~dbConfig.has
    /\ Len(issues) > 0
    /\ ProjectDir # 0
    /\ cfgFile[ProjectDir] = File("")
    /\ ~tmpFile[ProjectDir].exists

\* a storage open after one that wrote the prefix to the config file: in the
\* process that made that open, or in a later process that has called
\* Initialize
LaterOpen(fault) ==
    /\ StorageOpen(fault)
    /\ \/ migrated = "this process"
       \/ migrated = "earlier process" /\ ~v.nil

\* C15: once a storage open has written the prefix to the config file, every
\* later open, in that process or in a new one that called Initialize, leaves
\* every config file byte-identical and the resolved prefix as it was,
\* whatever the legacy setting has become.
C15_MigratesOnce ==
    [][ \A fault \in Faults :
          LaterOpen(fault) =>
            /\ cfgFile' = cfgFile
            /\ GetIssuePrefix' = GetIssuePrefix ]_vars

\* the version markers discovery reports, as a bag
VersionsFound(files) ==
    LET d == detectDatabases(files)
    IN  [ver \in {d[i].version : i \in 1..Len(d)} |->
           Cardinality({i \in 1..Len(d) : d[i].version = ver})]

ConfigOnPath == {l \in 0..cwd : HasConfig(l)}

\* the file the stated search selects: the nearest one on the path, the user
\* and home locations only when the path has none
StatedChoice ==
    IF ConfigOnPath # {}
    THEN cfgFile[CHOOSE l \in ConfigOnPath : \A m \in ConfigOnPath : m <= l]
    ELSE IF userCfg.exists THEN userCfg
    ELSE IF homeCfg.exists THEN homeCfg
    ELSE NoFile

\* C17: Initialize examines the working directory and every ancestor, the
\* filesystem root included, for .beads/config.yaml and loads the nearest one
\* that exists; the user and home files are loaded only when no directory on
\* that path has one.
C17_WalkReachesRoot ==
    [][ CallInitialize("none") =>
          \A k \in Keys :
            v'.config[k] = IF last'.err = "" THEN FileValue(StatedChoice, k)
                           ELSE None ]_vars

\* the faults of the persistence step: temp-file write and rename
PersistFaults == {"open", "short", "rename"}

\* C18: when SetIssuePrefix fails while writing the temp file or while
\* renaming it over config.yaml, it returns an error, no config.yaml.tmp is
\* left in the project directory, config.yaml holds what it held before, and
\* the in-memory issue-prefix is unchanged.
C18_FailedPersistLeavesNothing ==
    [][ \A p \in Prefixes, fault \in PersistFaults :
          (CallSetIssuePrefix(p, fault) /\ FindBeadsDir(cwd) # 0) =>
            /\ last'.err # ""
            /\ ~tmpFile'[FindBeadsDir(cwd)].exists
            /\ cfgFile' = cfgFile
            /\ GetIssuePrefix' = GetIssuePrefix ]_vars

\* every concurrent call has returned, with or without an error
AllReturned == \A w \in Writers : pc[w] \in {"returned", "failed to update config.yaml"}

\* C19: once two interleaved SetIssuePrefix calls with different prefixes
\* have both returned, both have returned success, config.yaml holds the
\* complete content one of them wrote, and no config.yaml.tmp remains.
C19_LastWriterWins ==
    AllReturned =>
      /\ \A w \in Writers : pc[w] = "returned"
      /\ FileAt(configPath, inodes) \in {File(newContent[w]) : w \in Writers}
      /\ tmpPath = 0

\* the call before was a SetIssuePrefix that wrote the project's config file
\* and returned nil, and Initialize now runs in the same working directory
ReloadAfterPersist ==
    /\ last.op = "SetIssuePrefix"
    /\ last.err = ""
    /\ last.dir # 0
    /\ CallInitialize("none")

\* C20 as stated: an Initialize after a SetIssuePrefix(p) that wrote the file
\* loads the file that was written, and GetIssuePrefix() returns p.
C20_RoundTripAsStated ==
    [][ ReloadAfterPersist =>
          /\ FindConfigLevel(cwd) = last.dir
          /\ ChosenConfigFile(TRUE) = cfgFile[last.dir]
          /\ GetIssuePrefix' = last.prefix ]_vars

\* C20, amended: an Initialize after a SetIssuePrefix(p) that wrote the file
\* selects the file that was written (the two walks agree on its directory);
\* if it returns nil the file layer holds p for issue-prefix, and
\* GetIssuePrefix() returns p unless BD_ISSUE_PREFIX is set to a non-empty
\* value, which is then returned instead; if it returns an error (the file
\* written is not valid YAML) no file value is loaded.
C20_RoundTrip ==
    [][ ReloadAfterPersist =>
          /\ FindConfigLevel(cwd) = last.dir
          /\ ChosenConfigFile(TRUE) = cfgFile[last.dir]
          /\ last'.err = "" =>
               /\ v'.config["issue-prefix"] = Some(last.prefix)
               /\ GetIssuePrefix' =
                    IF env["issue-prefix"].has /\ env["issue-prefix"].val # ""
                    THEN env["issue-prefix"].val ELSE last.prefix
          /\ last'.err # "" =>
               /\ ParseConfig(cfgFile[last.dir].data).err
               /\ ~v'.config["issue-prefix"].has ]_vars

\* SetIssuePrefix has written a"b over a declared prefix and Initialize has
\* reloaded it from the file
C20_Witness ==
    /\ last.op = "Initialize"
    /\ last.err = ""
    /\ env = NoEnv
    /\ cfgFile[cwd] = File("issue-prefix: \"a\\\"b\"\njson: true\n")
    /\ ~v.override["issue-prefix"].has
    /\ v.config["issue-prefix"] = Some("a\"b")
    /\ GetIssuePrefix = "a\"b"

\* C21: every Initialize, whether it returns nil or a parse error and whether
\* or not os.Getwd worked, leaves a singleton with no value installed by Set;
\* each key then resolves to BD_<KEY> if that is set and not empty, else to
\* the value in the config file found by this call if the call read it, else
\* to the default; after a parse error nothing of the previous configuration
\* is left, so only the environment and the defaults answer.
C21_InitializeReplaces ==
    [][ \A fault \in {"none", "getwd"} :
          CallInitialize(fault) =>
            LET found == ChosenConfigFile(fault # "getwd")
            IN  /\ ~v'.nil
                /\ \A k \in Keys :
                     /\ ~v'.override[k].has
                     /\ last'.err # "" => ~v'.config[k].has
                     /\ GetString(v', env, k) =
                          IF env[k].has /\ env[k].val # "" THEN env[k].val
                          ELSE IF last'.err = "" /\ FileValue(found, k).has
                          THEN FileValue(found, k).val
                          ELSE Default(k) ]_vars

\* Initialize has replaced a singleton that held an explicit Set of
\* issue-prefix, and failed to parse the project file: no Set value and no
\* file value is left and the prefix resolves to the default
C21_Witness ==
    /\ last.op = "Initialize"
    /\ last.err # ""
    /\ last.hadSet
    /\ env = NoEnv
    /\ ~v.nil
    /\ \A k \in Keys : ~v.override[k].has /\ ~v.config[k].has
    /\ GetIssuePrefix = ""
    /\ GetString(v, env, "json") = "false"

\* every read of the singleton vv gives the zero value of its type
ReadsZero(vv) ==
    /\ \A k \in Keys :
         /\ GetString(vv, env, k) = ""
         /\ GetBool(vv, env, k) = FALSE
         /\ GetInt(vv, env, k) = 0
         /\ GetDuration(vv, env, k) = 0
    /\ GetString(vv, env, "issue-prefix") = ""
    /\ AllSettings(vv, env) = EmptyMap

\* C22: while the singleton is nil, GetString, GetBool, GetInt, GetDuration
\* and GetIssuePrefix give the zero value and AllSettings gives an empty map,
\* whatever the environment and the files hold; Set changes nothing, and a
\* SetIssuePrefix call, whether it writes the file, fails or finds no
\* project, leaves the singleton nil, so the reads after it give the zero
\* values still.
C22_InertBeforeInitialize ==
    [][ /\ v.nil => ReadsZero(v)
        /\ v'.nil => ReadsZero(v')
        /\ v.nil => \A k \in Keys, p \in Prefixes : Set(v, k, p) = v
        /\ \A p \in Prefixes \cup {""}, fault \in IOFaults :
             (v.nil /\ CallSetIssuePrefix(p, fault)) =>
               /\ v'.nil
               /\ GetIssuePrefix' = "" ]_vars

\* SetIssuePrefix("bd") has returned nil in a process that never called
\* Initialize, with BD_ISSUE_PREFIX=envp in the environment: the prefix still
\* reads as empty and AllSettings is empty
C22_Witness ==
    /\ v.nil
    /\ last.op = "SetIssuePrefix"
    /\ last.prefix = "bd"
    /\ last.err = ""
    /\ env = PrefixEnv
    /\ GetIssuePrefix = ""
    /\ AllSettings(v, env) = EmptyMap

====
